---- MODULE Spec2Model ----
(***************************************************************************)
(* Quickie: the Main (editor + terminal) Screen, its open-file cache, the  *)
(* Terminal Pane and the parts of the Config Store and the screen stack    *)
(* that the Main Screen depends on.                                        *)
(*                                                                         *)
(* Every handler of the program runs to completion on the single event     *)
(* loop, so a handler is one action.  A handler is written as an operator  *)
(* from the state before it (a record holding every variable) to the state *)
(* after it, which lets a handler call another one the way the code does.  *)
(***************************************************************************)
EXTENDS Integers, Sequences, FiniteSets, TLC

VARIABLES
    stack,            \* App screen stack, bottom first
    config,           \* the process-wide Config object (config.py)
    config_file,      \* the persisted record ~/.quickie/config.json
    disk,             \* project directory: path -> text, or NoFile
    mounted,          \* MainScreen.on_mount has run
    styles,           \* what MainScreen.compose / on_mount applied to its widgets
    open_files,       \* MainScreen.open_files : dict[Path, OpenFile]
    active_file,      \* MainScreen.active_file : Path | None
    editor,           \* text of the #code-editor TextArea
    current_focus,    \* MainScreen.current_focus
    scrollback,       \* lines written to the TerminalWidget (RichLog)
    command_history,  \* TerminalWidget.command_history
    workers,          \* execute_command workers of the TerminalWidget
    all_files,        \* QuickOpenModal.all_files
    query,            \* value of the #quick-open-input the list was last built for
    options,          \* options of the #file-list OptionList, in order
    highlighted,      \* OptionList.highlighted: an index from 0, or Unhighlighted
    project_input_disabled,  \* WelcomeScreen #project-input .disabled
    status_label,     \* text of the WelcomeScreen #status-label
    setup_workers,    \* setup_project workers of the WelcomeScreen
    project_dirs,     \* ~/Code/Quickies/<name>: "absent", "bare" or "initialized"
    focused,          \* the focused widget of the Main Screen
    color_inputs,     \* values of the four colour inputs of the Settings Screen
    events,           \* history: what the most recent handler did, in order
    left              \* history: editor text when a file was last switched away from

vars == <<stack, config, config_file, disk, mounted, styles, open_files,
          active_file, editor, current_focus, scrollback, command_history,
          workers, all_files, query, options, highlighted,
          project_input_disabled, status_label, setup_workers, project_dirs,
          focused, color_inputs,
          events, left>>

----------------------------------------------------------------------------
(* Bounds of the model *)

MaxRuns == 1      \* RunCode, TerminalCommandOne: offered below this many submissions
MaxCmds == 2      \* RunCodeAgain, TerminalCommand: offered below this many submissions
MaxStack == 3     \* screens on the stack
MaxOut == 3       \* characters of merged output a command produces

----------------------------------------------------------------------------
(* Values *)

None == "<None>"
NoFile == "<no file>"
NoText == "<never left>"

MainPy == "main.py"
OtherPy == "my app.py"
Paths == {MainPy, OtherPy}
\* a file in a directory of the project, for the picker
SubPy == "lib/Util.py"
AllPaths == Paths \cup {SubPy}
\* sorted(files, key=lambda p: p.name) over the paths of the model:
\* "Util.py" < "main.py" < "my app.py"
NameOrder == <<SubPy, MainPy, OtherPy>>

DefaultCode == "def main(): print('Hello, World!')"
Texts == {"", DefaultCode, "x = 1"}

EmptyMap == [p \in {} |-> None]

Prompt == <<"$", " ">>

Top(w) == IF w.stack = <<>> THEN None ELSE w.stack[Len(w.stack)]

----------------------------------------------------------------------------
(* Config Store *)

ConfigKeys == {"border_title_align", "background_color", "textarea_bg_color",
               "terminal_bg_color", "accent_color", "editor_theme",
               "show_line_numbers", "soft_wrap", "clear_terminal_on_run",
               "auto_save_on_run"}

Defaults == [border_title_align |-> "right",
             background_color |-> "#1e1e2e",
             textarea_bg_color |-> "#2b2b3b",
             terminal_bg_color |-> "#1a1a28",
             accent_color |-> "#89b4fa",
             editor_theme |-> "monokai",
             show_line_numbers |-> TRUE,
             soft_wrap |-> FALSE,
             clear_terminal_on_run |-> FALSE,
             auto_save_on_run |-> TRUE]

\* data.get(key, default)
Get(data, key) == IF key \in DOMAIN data THEN data[key] ELSE Defaults[key]

\* what ~/.quickie/config.json can be: no file, a file that cannot be opened
\* or read, text that is not JSON, bytes that are not text, JSON that is not
\* an object, or an object
FileKinds == {"absent", "unreadable", "invalid_json", "not_text", "not_object",
              "object"}

\* Config.load, the fields it leaves: file is [kind |-> ..., data |-> ...];
\* a file that is not an object leaves every field as __init__ set it
load(file) ==
    IF file.kind = "object"
    THEN [k \in ConfigKeys |-> Get(file.data, k)]
    ELSE Defaults

\* Config.load, the exception that leaves it: OSError and JSONDecodeError are
\* caught, the AttributeError of data.get on a value that is not a dict and
\* the UnicodeDecodeError of reading bytes that are not text are not
load_raises(file) ==
    CASE file.kind = "not_object" -> "AttributeError"
      [] file.kind = "not_text" -> "UnicodeDecodeError"
      [] OTHER -> None

\* Config.save: the whole record is written
save(cfg) == [kind |-> "object", data |-> cfg]

\* a setter of one field followed by config.save()
set_field_from_defaults(w, key, value) ==
    LET cfg == [Defaults EXCEPT ![key] = value]
    IN [w EXCEPT !.config = cfg, !.config_file = save(cfg)]
set_field(w, key, value) ==
    LET cfg == [w.config EXCEPT ![key] = value]
    IN [w EXCEPT !.config = cfg, !.config_file = save(cfg)]

----------------------------------------------------------------------------
(* Text helpers of the Terminal Pane.  A string is a sequence of tokens. *)

Whitespace == {" ", "\n"}

RECURSIVE lstrip(_)
lstrip(s) == IF s # <<>> /\ Head(s) \in Whitespace THEN lstrip(Tail(s)) ELSE s

RECURSIVE rstrip(_)
rstrip(s) ==
    IF s # <<>> /\ s[Len(s)] \in Whitespace
    THEN rstrip(SubSeq(s, 1, Len(s) - 1))
    ELSE s

\* str.strip()
strip(s) == rstrip(lstrip(s))

\* str.split("\n"): always at least one piece
RECURSIVE split(_)
split(s) ==
    IF \E i \in 1..Len(s) : s[i] = "\n"
    THEN LET i == CHOOSE j \in 1..Len(s) :
                      s[j] = "\n" /\ \A k \in 1..(j - 1) : s[k] # "\n"
         IN <<SubSeq(s, 1, i - 1)>> \o split(SubSeq(s, i + 1, Len(s)))
    ELSE <<s>>

\* shlex.quote: names made of safe characters only are returned unchanged
NeedsQuote == {OtherPy}
shlex_quote(s) == IF s \in NeedsQuote THEN <<"'", s, "'">> ELSE <<s>>

----------------------------------------------------------------------------
(* The state as a record, and its commit *)

W == [stack |-> stack, config |-> config, config_file |-> config_file,
      disk |-> disk, mounted |-> mounted, styles |-> styles,
      open_files |-> open_files, active_file |-> active_file,
      editor |-> editor, current_focus |-> current_focus,
      scrollback |-> scrollback, command_history |-> command_history,
      workers |-> workers, all_files |-> all_files, query |-> query,
      options |-> options, highlighted |-> highlighted,
      project_input_disabled |-> project_input_disabled,
      status_label |-> status_label, setup_workers |-> setup_workers,
      project_dirs |-> project_dirs, focused |-> focused,
      color_inputs |-> color_inputs, events |-> events, left |-> left]

Commit(w) ==
    /\ stack' = w.stack
    /\ config' = w.config
    /\ config_file' = w.config_file
    /\ disk' = w.disk
    /\ mounted' = w.mounted
    /\ styles' = w.styles
    /\ open_files' = w.open_files
    /\ active_file' = w.active_file
    /\ editor' = w.editor
    /\ current_focus' = w.current_focus
    /\ scrollback' = w.scrollback
    /\ command_history' = w.command_history
    /\ workers' = w.workers
    /\ all_files' = w.all_files
    /\ query' = w.query
    /\ options' = w.options
    /\ highlighted' = w.highlighted
    /\ project_input_disabled' = w.project_input_disabled
    /\ status_label' = w.status_label
    /\ setup_workers' = w.setup_workers
    /\ project_dirs' = w.project_dirs
    /\ focused' = w.focused
    /\ color_inputs' = w.color_inputs
    /\ events' = w.events
    /\ left' = w.left

\* a handler starts with an empty record of what it did
Begin(w) == [w EXCEPT !.events = <<>>]
Did(w, e) == [w EXCEPT !.events = Append(@, e)]

----------------------------------------------------------------------------
(* Terminal Pane: TerminalWidget *)

\* RichLog.write
write(w, line) == [w EXCEPT !.scrollback = Append(@, line)]

\* RichLog.clear
clear(w) == [w EXCEPT !.scrollback = <<>>]

\* TerminalWidget.on_mount
terminal_on_mount(w) == write(w, Prompt)

\* @work(exclusive=True): the workers of this widget are cancelled
no_cancel_existing(ws) == ws
cancel_existing(ws) == {[x EXCEPT !.cancelled = TRUE] : x \in ws}

\* calling execute_command: a new worker starts, after the exclusive cancel
execute_command(w, command) ==
    [w EXCEPT !.workers = cancel_existing(@) \cup
                  {[id |-> Len(w.command_history), cmd |-> command,
                    cancelled |-> FALSE]}]

\* TerminalWidget.run_command
run_command(w, command) ==
    LET w1 == [w EXCEPT !.command_history = Append(@, command)]
        w2 == write(w1, command)
    IN execute_command(Did(w2, "submit"), command)

\* what a child process hands back: merged output and exit status, or an
\* exception raised while spawning, waiting or decoding
Chars == {"a", " ", "\n"}
RawOutputs == UNION {[1..n -> Chars] : n \in 0..MaxOut}
Exited(raw, rc) == [kind |-> "out", raw |-> raw, rc |-> rc, exc |-> None]
Raised(exc) == [kind |-> "exc", raw |-> <<>>, rc |-> 0, exc |-> exc]
Results == {Exited(raw, rc) : raw \in RawOutputs, rc \in {0, 1}}
               \cup {Raised("OSError")}
OneResult == {Exited(<<"a", "\n">>, 0)}
FewResults == {Exited(<<"a", "\n">>, 0), Exited(<<>>, 1), Raised("OSError")}

\* "except Exception": asyncio.CancelledError derives from BaseException
except_Exception(exc) == exc # "CancelledError"

\* the lines of the try block: output = stdout.decode().strip(), one write a line
write_raw_lines(w, raw) ==
    IF raw # <<>> THEN [w EXCEPT !.scrollback = @ \o split(raw)] ELSE w
write_output(w, raw) ==
    LET output == strip(raw)
    IN IF output # <<>> THEN [w EXCEPT !.scrollback = @ \o split(output)] ELSE w

\* what the worker's end leaves in `events`: how it ended and, for a process
\* that exited, its merged output
Ended(raised, result) ==
    IF raised # None THEN <<raised>>
    ELSE <<IF result.rc = 0 THEN "exit0" ELSE "exit1">> \o result.raw

\* the body of the execute_command worker x, resumed after its awaits with
\* `result`, or with CancelledError when the worker was cancelled
execute_command_body_prompt_in_try(w, x, result) ==
    LET raised == IF x.cancelled THEN "CancelledError" ELSE result.exc
        w1 == IF raised = None THEN write(write_output(w, result.raw), Prompt)
              ELSE IF except_Exception(raised) THEN write(w, <<"Error: ", raised>>)
              ELSE w
    IN [w1 EXCEPT !.workers = @ \ {x}, !.events = Ended(raised, result)]
execute_command_body(w, x, result) ==
    LET raised == IF x.cancelled THEN "CancelledError" ELSE result.exc
        caught == raised # None /\ except_Exception(raised)
        escaped == raised # None /\ ~caught
        w1 == IF raised = None THEN write_output(w, result.raw)
              ELSE IF caught THEN write(w, <<"Error: ", raised>>)
              ELSE w
        \* line 80 is reached unless the exception escaped
        w2 == IF escaped THEN w1 ELSE write(w1, Prompt)
    IN [w2 EXCEPT !.workers = @ \ {x}, !.events = Ended(raised, result)]

----------------------------------------------------------------------------
(* Main Screen *)

OpenFile_dirty(path, content) ==
    [path |-> path, content |-> content, modified |-> content # ""]
OpenFile(path, content) == [path |-> path, content |-> content, modified |-> FALSE]

Applied(cfg) == [k \in ConfigKeys \ {"clear_terminal_on_run", "auto_save_on_run"}
                     |-> cfg[k]]

\* MainScreen.open_file; `readable` is whether read_text succeeds
open_file_no_flush(w, file_path, readable) ==
    LET hasActive == w.active_file # None /\ w.active_file \in DOMAIN w.open_files
        cached == file_path \in DOMAIN w.open_files
        exists == w.disk[file_path] # NoFile
        content == IF cached THEN w.open_files[file_path].content
                   ELSE IF exists /\ readable THEN w.disk[file_path] ELSE ""
        files == IF cached THEN w.open_files
                 ELSE (file_path :> OpenFile(file_path, content)) @@ w.open_files
        lft == IF hasActive THEN [w.left EXCEPT ![w.active_file] = w.editor]
               ELSE w.left
    IN [w EXCEPT !.open_files = files, !.active_file = file_path,
                 !.editor = content,
                 !.left = [lft EXCEPT ![file_path] = NoText],
                 !.events = @ \o <<IF cached THEN "cache_hit" ELSE "no_file">>]
open_file_reread(w, file_path, readable) ==
    LET hasActive == w.active_file # None /\ w.active_file \in DOMAIN w.open_files
        flushed == IF hasActive
                   THEN [w.open_files EXCEPT ![w.active_file].content = w.editor]
                   ELSE w.open_files
        cached == file_path \in DOMAIN flushed
        exists == w.disk[file_path] # NoFile
        content == IF exists /\ readable THEN w.disk[file_path] ELSE ""
        files == (file_path :> OpenFile(file_path, content)) @@ flushed
        lft == IF hasActive THEN [w.left EXCEPT ![w.active_file] = w.editor]
               ELSE w.left
    IN [w EXCEPT !.open_files = files, !.active_file = file_path,
                 !.editor = content,
                 !.left = [lft EXCEPT ![file_path] = NoText],
                 !.events = @ \o (IF hasActive THEN <<"flush">> ELSE <<>>)
                              \o <<IF cached THEN "cache_hit" ELSE "no_file">>]
open_file_not_cached(w, file_path, readable) ==
    LET content == IF file_path \in DOMAIN w.open_files
                   THEN w.open_files[file_path].content
                   ELSE IF w.disk[file_path] # NoFile /\ readable
                        THEN w.disk[file_path] ELSE ""
    IN [w EXCEPT !.active_file = file_path, !.editor = content,
                 !.events = @ \o <<"no_file">>]
open_file_creates(w, file_path, readable) ==
    LET hasActive == w.active_file # None /\ w.active_file \in DOMAIN w.open_files
        flushed == IF hasActive
                   THEN [w.open_files EXCEPT ![w.active_file].content = w.editor]
                   ELSE w.open_files
        cached == file_path \in DOMAIN flushed
        exists == w.disk[file_path] # NoFile
        content == IF cached THEN flushed[file_path].content
                   ELSE IF exists /\ readable THEN w.disk[file_path] ELSE ""
        files == IF cached THEN flushed
                 ELSE (file_path :> OpenFile(file_path, content)) @@ flushed
        lft == IF hasActive THEN [w.left EXCEPT ![w.active_file] = w.editor]
               ELSE w.left
    IN [w EXCEPT !.open_files = files, !.active_file = file_path,
                 !.editor = content,
                 !.disk[file_path] = IF cached \/ exists THEN @ ELSE "",
                 !.left = [lft EXCEPT ![file_path] = NoText],
                 !.events = @ \o (IF hasActive THEN <<"flush">> ELSE <<>>)
                              \o <<IF cached THEN "cache_hit"
                                   ELSE IF ~exists THEN "no_file"
                                   ELSE IF readable THEN "read_file"
                                   ELSE "read_failed">>]
open_file(w, file_path, readable) ==
    LET hasActive == w.active_file # None /\ w.active_file \in DOMAIN w.open_files
        \* persist current editor state before switching
        flushed == IF hasActive
                   THEN [w.open_files EXCEPT ![w.active_file].content = w.editor]
                   ELSE w.open_files
        cached == file_path \in DOMAIN flushed
        exists == w.disk[file_path] # NoFile
        content == IF cached THEN flushed[file_path].content
                   ELSE IF exists /\ readable THEN w.disk[file_path] ELSE ""
        files == IF cached THEN flushed
                 ELSE (file_path :> OpenFile(file_path, content)) @@ flushed
        lft == IF hasActive THEN [w.left EXCEPT ![w.active_file] = w.editor]
               ELSE w.left
    IN [w EXCEPT !.open_files = files, !.active_file = file_path,
                 !.editor = content,
                 !.left = [lft EXCEPT ![file_path] = NoText],
                 !.events = @ \o (IF hasActive THEN <<"flush">> ELSE <<>>)
                              \o <<IF cached THEN "cache_hit"
                                   ELSE IF ~exists THEN "no_file"
                                   ELSE IF readable THEN "read_file"
                                   ELSE "read_failed">>]

\* MainScreen.on_mount, after compose and the TerminalWidget's own on_mount
on_mount(w, readable) ==
    LET w1 == terminal_on_mount([w EXCEPT !.styles = Applied(w.config),
                                          !.mounted = TRUE])
        w2 == IF w1.disk[MainPy] = NoFile
              THEN [w1 EXCEPT !.disk[MainPy] = DefaultCode]
              ELSE w1
    IN [open_file(w2, MainPy, readable) EXCEPT !.focused = "editor"]

\* MainScreen.action_toggle_focus
action_toggle_focus(w) ==
    IF w.current_focus = "editor"
    THEN [w EXCEPT !.focused = "terminal-input", !.current_focus = "terminal"]
    ELSE [w EXCEPT !.focused = "editor", !.current_focus = "editor"]

\* TerminalWidget.on_click
terminal_on_click(w) ==
    [w EXCEPT !.focused = "terminal-input", !.current_focus = "terminal"]

\* a click on the TextArea or on the TerminalInput, which have no click
\* handler of their own: the clicked widget takes the focus
focus_on_click(w, widget) == [w EXCEPT !.focused = widget]

\* Path.write_text: "ok", or an OSError that leaves the file as it was
\* ("denied") or already truncated ("truncated")
WriteOutcomes == {"ok", "denied", "truncated"}

\* MainScreen.action_save_file
action_save_file_cache_first(w, outcome) ==
    LET w1 == [w EXCEPT !.open_files[w.active_file].content = w.editor,
                        !.open_files[w.active_file].modified = FALSE]
    IN IF outcome = "ok"
       THEN Did(Did([w1 EXCEPT !.disk[w.active_file] = w.editor],
                    "write_file"), "notify_information")
       ELSE Did(Did([w1 EXCEPT !.disk[w.active_file] =
                                   IF outcome = "truncated" THEN "" ELSE @],
                    "write_failed"), "notify_error")
action_save_file_cached_text(w, outcome) ==
    IF outcome = "ok"
    THEN Did(Did([w EXCEPT !.disk[w.active_file] =
                               w.open_files[w.active_file].content],
                 "write_file"), "notify_information")
    ELSE Did(Did(w, "write_failed"), "notify_error")
action_save_file(w, outcome) ==
    IF w.active_file = None
    THEN Did(w, "notify_warning")
    ELSE IF outcome = "ok"
         THEN Did(Did([w EXCEPT !.disk[w.active_file] = w.editor,
                                !.open_files[w.active_file].content = w.editor,
                                !.open_files[w.active_file].modified = FALSE],
                      "write_file"), "notify_information")
         ELSE Did(Did([w EXCEPT !.disk[w.active_file] =
                                    IF outcome = "truncated" THEN "" ELSE @],
                      "write_failed"), "notify_error")

\* the command line of the runner
RunnerCommand(path) == <<"uv run ">> \o shlex_quote(path)

\* MainScreen.action_run_code
action_run_code_clear_last(w, outcome) ==
    IF w.active_file = None
    THEN Did(w, "notify_warning")
    ELSE LET w1 == IF w.config.auto_save_on_run
                   THEN action_save_file(w, outcome)
                   ELSE w
             w2 == run_command(w1, RunnerCommand(w1.active_file))
         IN IF w2.config.clear_terminal_on_run
            THEN write(Did(clear(w2), "clear"), Prompt)
            ELSE w2
action_run_code(w, outcome) ==
    IF w.active_file = None
    THEN Did(w, "notify_warning")
    ELSE LET w1 == IF w.config.auto_save_on_run
                   THEN action_save_file(w, outcome)
                   ELSE w
             w2 == IF w1.config.clear_terminal_on_run
                   THEN write(Did(clear(w1), "clear"), Prompt)
                   ELSE w1
         IN run_command(w2, RunnerCommand(w2.active_file))

\* MainScreen.handle_terminal_command
handle_terminal_command(w, value) ==
    LET command == strip(value)
    IN IF command # <<>> THEN run_command(w, command) ELSE w

----------------------------------------------------------------------------
(* Quick-Open picker and Settings Screen, as far as the Main Screen sees them *)

\* QuickOpenModal._get_project_files over the paths of the model
project_files(w) ==
    SelectSeq(NameOrder, LAMBDA p : p \in DOMAIN w.disk /\ w.disk[p] # NoFile)

\* str(file_path.relative_to(self.project_path)), character by character
rel_path(p) ==
    CASE p = MainPy -> <<"m", "a", "i", "n", ".", "p", "y">>
      [] p = OtherPy -> <<"m", "y", " ", "a", "p", "p", ".", "p", "y">>
      [] p = SubPy -> <<"l", "i", "b", "/", "U", "t", "i", "l", ".", "p", "y">>

\* Path.name: what follows the last separator
RECURSIVE name(_)
name(s) == IF \E i \in 1..Len(s) : s[i] = "/" THEN name(Tail(s)) ELSE s

\* str.lower() over the letters of the model
lower_char(c) ==
    CASE c = "A" -> "a" [] c = "I" -> "i" [] c = "L" -> "l" [] c = "M" -> "m"
      [] c = "P" -> "p" [] c = "U" -> "u" [] c = "Y" -> "y" [] OTHER -> c
lower(s) == [i \in 1..Len(s) |-> lower_char(s[i])]

\* sub in s
contains(sub, s) ==
    \E i \in 1..(Len(s) - Len(sub) + 1) : SubSeq(s, i, i + Len(sub) - 1) = sub

\* OptionList.highlighted is None
Unhighlighted == -1

\* the condition of _update_file_list on one file
matches_name_only(q, p) ==
    q = <<>> \/ contains(lower(q), lower(name(rel_path(p))))
matches(q, p) ==
    \/ q = <<>>
    \/ contains(lower(q), lower(name(rel_path(p))))
    \/ contains(lower(q), lower(rel_path(p)))

\* QuickOpenModal._update_file_list: clear_options unsets the highlight
update_file_list(w, q) ==
    LET opts == SelectSeq(w.all_files, LAMBDA p : matches(q, p))
    IN [w EXCEPT !.query = q, !.options = opts,
                 !.highlighted = IF Len(opts) > 0 THEN 0 ELSE Unhighlighted]

\* QuickOpenModal.on_mount
quick_open_on_mount(w) ==
    update_file_list([w EXCEPT !.all_files = project_files(w)], <<>>)

\* MainScreen.action_quick_open, with QuickOpenModal.on_mount
action_quick_open(w) ==
    quick_open_on_mount([w EXCEPT !.stack = Append(@, "quickopen")])

pop_screen(w) == [w EXCEPT !.stack = SubSeq(@, 1, Len(@) - 1)]

\* ModalScreen.dismiss: the picker is popped and discarded
dismiss(w) ==
    [pop_screen(w) EXCEPT !.all_files = <<>>, !.query = <<>>, !.options = <<>>,
                          !.highlighted = Unhighlighted]

\* QuickOpenModal.on_search_changed
on_search_changed(w, value) == update_file_list(w, value)

\* QuickOpenModal.action_cursor_up
action_cursor_up_no_wrap(w) ==
    IF w.highlighted # Unhighlighted /\ w.highlighted > 0
    THEN [Did(w, "cursor_up") EXCEPT !.highlighted = @ - 1]
    ELSE Did(w, "cursor_up")
action_cursor_up(w) ==
    IF w.highlighted # Unhighlighted /\ w.highlighted > 0
    THEN [Did(w, "cursor_up") EXCEPT !.highlighted = @ - 1]
    ELSE IF Len(w.options) > 0
    THEN [Did(w, "cursor_up") EXCEPT !.highlighted = Len(w.options) - 1]
    ELSE Did(w, "cursor_up")

\* QuickOpenModal.action_cursor_down
action_cursor_down(w) ==
    IF w.highlighted # Unhighlighted /\ w.highlighted < Len(w.options) - 1
    THEN [Did(w, "cursor_down") EXCEPT !.highlighted = @ + 1]
    ELSE IF Len(w.options) > 0
    THEN [Did(w, "cursor_down") EXCEPT !.highlighted = 0]
    ELSE Did(w, "cursor_down")

\* QuickOpenModal.action_select_file, then handle_result
action_select_file_unfiltered(w, readable) ==
    IF w.highlighted # Unhighlighted /\ Len(w.options) > 0
    THEN open_file(dismiss(Did(w, "select_file")),
                   w.all_files[w.highlighted + 1], readable)
    ELSE Did(w, "select_file")
action_select_file(w, readable) ==
    IF w.highlighted # Unhighlighted /\ Len(w.options) > 0
    THEN open_file(dismiss(Did(w, "select_file")),
                   w.options[w.highlighted + 1], readable)
    ELSE Did(w, "select_file")

\* QuickOpenModal.on_file_selected on the option at position i, then handle_result
on_file_selected(w, i, readable) == open_file(dismiss(w), w.options[i], readable)

\* QuickOpenModal.action_close, then handle_result(None)
action_close(w) == dismiss(w)

\* QuickieApp.action_open_settings
action_open_settings_cancels(w) ==
    [w EXCEPT !.stack = Append(@, "settings"), !.workers = cancel_existing(@)]
action_open_settings(w) == [w EXCEPT !.stack = Append(@, "settings")]

\* SettingsScreen.action_start_editing and action_go_back
action_start_editing_reopens(w) == open_file(pop_screen(w), MainPy, TRUE)
action_start_editing(w) == pop_screen(w)
action_go_back(w) == pop_screen(w)

\* SettingsScreen checkbox and button handlers
on_auto_save_changed(w, value) == set_field(w, "auto_save_on_run", value)
on_clear_terminal_changed(w, value) == set_field(w, "clear_terminal_on_run", value)
on_line_numbers_changed_hot(w, value) ==
    [set_field(w, "show_line_numbers", value)
        EXCEPT !.styles = IF w.mounted
                          THEN [@ EXCEPT !.show_line_numbers = value] ELSE @]
on_line_numbers_changed(w, value) == set_field(w, "show_line_numbers", value)
on_soft_wrap_changed_unsaved(w, value) ==
    [w EXCEPT !.config = [@ EXCEPT !["soft_wrap"] = value]]
on_soft_wrap_changed(w, value) == set_field(w, "soft_wrap", value)
set_border_title_align(w, align) == set_field(w, "border_title_align", align)

Aligns == {"left", "center", "right"}

\* SettingsScreen.on_theme_changed: a blank selection is skipped
Blank == "<blank>"
on_theme_changed(w, value) ==
    IF value # Blank THEN set_field(w, "editor_theme", value) ELSE w

\* the characters of what a colour input can hold
chars(color) ==
    CASE color = "" -> <<>>
      [] color = "#fff" -> <<"#", "f", "f", "f">>
      [] color = "ffff" -> <<"f", "f", "f", "f">>
      [] color = "#12345" -> <<"#", "1", "2", "3", "4", "5">>
      [] color = "#1e1e2e" -> <<"#", "1", "e", "1", "e", "2", "e">>
      [] color = "#2b2b3b" -> <<"#", "2", "b", "2", "b", "3", "b">>
      [] color = "#1a1a28" -> <<"#", "1", "a", "1", "a", "2", "8">>
      [] color = "#89b4fa" -> <<"#", "8", "9", "b", "4", "f", "a">>

\* the test of apply_colors on one value
valid_color_any_length(color) ==
    /\ chars(color) # <<>>
    /\ Head(chars(color)) = "#"
valid_color(color) ==
    /\ chars(color) # <<>>
    /\ Head(chars(color)) = "#"
    /\ Len(chars(color)) \in {4, 7}

\* Config.set_color
set_color(w, color_type, color) ==
    CASE color_type = "background" -> set_field(w, "background_color", color)
      [] color_type = "textarea_bg" -> set_field(w, "textarea_bg_color", color)
      [] color_type = "terminal_bg" -> set_field(w, "terminal_bg_color", color)
      [] color_type = "accent" -> set_field(w, "accent_color", color)
      [] OTHER -> [w EXCEPT !.config_file = save(w.config)]

\* one turn of the loop of apply_colors
apply_color(w, color_type, color_value) ==
    IF valid_color(color_value) THEN set_color(w, color_type, color_value) ELSE w

\* SettingsScreen.apply_colors on the values of the four inputs
apply_colors(w, bg_color, textarea_color, terminal_color, accent_color) ==
    apply_color(
        apply_color(
            apply_color(
                apply_color(w, "background", bg_color),
                "textarea_bg", textarea_color),
            "terminal_bg", terminal_color),
        "accent", accent_color)

----------------------------------------------------------------------------
(* Start of the program *)

\* Config.__init__, run by `config = Config()` when the module is imported
Config_init(w) ==
    LET w1 == [Did(w, "load") EXCEPT !.config = load(w.config_file)]
    IN IF load_raises(w.config_file) = None
       THEN w1
       ELSE Did(w1, load_raises(w.config_file))

\* QuickieApp.on_mount
app_on_mount(w) == [Did(w, "app_on_mount") EXCEPT !.stack = Append(@, "welcome")]

----------------------------------------------------------------------------
(* Welcome Screen: project bootstrap *)

\* characters of a project name: \w matches the letters, digits and
\* underscore of every script, "e'" standing for a letter outside ASCII
WordChars == {"d", "1", "_", "e'"}

\* re.match(r'^[\w\-]+$', project_name), for a stripped, single-line name
re_match_unanchored(project_name) ==
    /\ project_name # <<>>
    /\ project_name[1] \in WordChars \cup {"-"}
re_match(project_name) ==
    /\ project_name # <<>>
    /\ \A i \in 1..Len(project_name) : project_name[i] \in WordChars \cup {"-"}

\* what is submitted in the #project-input
ProjectInputs == {<<>>, <<" ">>, <<"d">>, <<" ", "d", " ">>, <<"d", "-", "1", "_">>,
                  <<"d", " ", "d">>, <<"d", "/">>, <<"e'">>}
ProjectNames == {strip(v) : v \in {x \in ProjectInputs : re_match(strip(x))}}

\* MainScreen.__init__ and push_screen: a fresh Main Screen on the stack
push_main_screen(w) ==
    [w EXCEPT !.stack = Append(@, "main"), !.mounted = FALSE, !.styles = None,
              !.open_files = EmptyMap, !.active_file = None, !.editor = "",
              !.current_focus = "editor", !.focused = "editor",
              !.scrollback = <<>>,
              !.command_history = <<>>, !.workers = {},
              !.left = [p \in AllPaths |-> NoText]]

\* calling setup_project: a new worker starts, after the exclusive cancel
setup_project(w, project_name) ==
    [Did(w, "setup_project")
        EXCEPT !.setup_workers = cancel_existing(@) \cup
                   {[name |-> project_name, pc |-> "start", cancelled |-> FALSE]}]

\* WelcomeScreen.handle_project_input
handle_project_input(w, value) ==
    LET project_name == strip(value)
    IN IF project_name = <<>>
       THEN [Did(w, "rejected")
                EXCEPT !.status_label = <<"Please enter a project name">>]
       ELSE IF ~re_match(project_name)
       THEN [Did(w, "rejected") EXCEPT !.status_label =
                <<"Name can only contain letters, numbers, hyphens, underscores">>]
       ELSE setup_project(w, project_name)

\* the except clause of setup_project
setup_failed(w, x, text) ==
    [Did(w, "error") EXCEPT !.status_label = <<"Error: ", text>>,
                           !.project_input_disabled = FALSE,
                           !.setup_workers = @ \ {x}]

\* setup_project from its first line to its first await or its end: mkdir
\* and create_subprocess_exec succeed or raise
SetupOutcomes == {"ok", "mkdir_raises", "exec_raises"}
setup_project_start(w, x, outcome) ==
    LET is_new == w.project_dirs[x.name] = "absent"
        w1 == [w EXCEPT !.project_input_disabled = TRUE,
                        !.status_label = <<"Creating ", x.name>>]
        w2 == [w1 EXCEPT !.project_dirs[x.name] = IF is_new THEN "bare" ELSE @]
    IN IF outcome = "mkdir_raises" THEN setup_failed(w1, x, "PermissionError")
       ELSE IF ~is_new
       THEN push_main_screen(
                [Did(w2, "push_screen")
                    EXCEPT !.status_label = <<"Opening existing project...">>,
                           !.setup_workers = @ \ {x}])
       ELSE IF outcome = "exec_raises"
       THEN setup_failed(w2, x, "FileNotFoundError")
       ELSE [Did(w2, "create_subprocess_exec")
                EXCEPT !.status_label = <<"Running uv init...">>,
                       !.setup_workers = (@ \ {x}) \cup {[x EXCEPT !.pc = "wait"]}]

\* setup_project after `await process.wait()`, with the initializer's exit
\* status and what it wrote to stderr
InitializerResults == {[rc |-> 0, stderr |-> ""], [rc |-> 2, stderr |-> "uv: failed"]}
setup_project_resume_pushes(w, x, result) ==
    push_main_screen(
        [Did(w, "push_screen")
            EXCEPT !.project_dirs[x.name] = "initialized",
                   !.setup_workers = @ \ {x}])
setup_project_resume(w, x, result) ==
    IF result.rc # 0
    THEN [Did(w, "initializer_failed")
             EXCEPT !.status_label = <<"Error: ", result.stderr>>,
                    !.project_input_disabled = FALSE,
                    !.setup_workers = @ \ {x}]
    ELSE push_main_screen(
             [Did(w, "push_screen")
                 EXCEPT !.project_dirs[x.name] = "initialized",
                        !.setup_workers = @ \ {x}])

\* a cancelled setup_project worker ends with CancelledError, which `except
\* Exception` does not catch
setup_project_cancelled(w, x) ==
    [Did(w, "CancelledError") EXCEPT !.setup_workers = @ \ {x}]

\* MainScreen.action_back_to_settings: the popped screen is removed and the
\* workers of its widgets are cancelled
action_back_to_settings(w) ==
    [Did(pop_screen(w), "back_to_settings") EXCEPT !.workers = cancel_existing(@)]

----------------------------------------------------------------------------
(* Actions *)

MainIsTop == mounted /\ Top(W) = "main"

MainMount ==
    /\ ~mounted
    /\ Top(W) = "main"
    /\ \E readable \in BOOLEAN : Commit(on_mount(Begin(W), readable))

\* the user types in the TextArea
EditIn(texts) ==
    /\ MainIsTop
    /\ \E t \in texts \ {editor} : Commit([Begin(W) EXCEPT !.editor = t])

Edit == EditIn(Texts)
EditOne == EditIn({"x = 1"})

\* a program outside the editor (a command run in the terminal among them)
\* creates, rewrites or removes a file of the project
FsChange ==
    /\ mounted
    /\ \E p \in Paths :
           \E c \in (Texts \cup {NoFile}) \ {disk[p]} :
               Commit([Begin(W) EXCEPT !.disk[p] = c])

ToggleFocus ==
    /\ MainIsTop
    /\ Commit(action_toggle_focus(Begin(W)))

ClickTerminal ==
    /\ MainIsTop
    /\ Commit(terminal_on_click(Begin(W)))

ClickEditor ==
    /\ MainIsTop
    /\ Commit(focus_on_click(Begin(W), "editor"))

ClickTerminalInput ==
    /\ MainIsTop
    /\ Commit(focus_on_click(Begin(W), "terminal-input"))

SaveFile ==
    /\ MainIsTop
    /\ \E outcome \in WriteOutcomes : Commit(action_save_file(Begin(W), outcome))

\* ctrl+r, while fewer than max commands were submitted
RunCodeBelow(max) ==
    /\ MainIsTop
    /\ Len(command_history) < max
    /\ \E outcome \in WriteOutcomes : Commit(action_run_code(Begin(W), outcome))

RunCode == RunCodeBelow(MaxRuns)
RunCodeAgain == RunCodeBelow(MaxCmds)

TypedInputs == {<<"ls">>, <<" ", "ls", " ">>, <<"pwd">>, <<" ">>}

\* a line submitted in the terminal's Input, while fewer than max commands
\* were submitted
TerminalCommandBelow(max) ==
    /\ MainIsTop
    /\ Len(command_history) < max
    /\ \E value \in TypedInputs : Commit(handle_terminal_command(Begin(W), value))

TerminalCommand == TerminalCommandBelow(MaxCmds)
TerminalCommandOne == TerminalCommandBelow(MaxRuns)

\* a worker that was not cancelled resumes with the result of its process
WorkerDoneIn(results) ==
    \E x \in workers, result \in results :
        /\ ~x.cancelled
        /\ Commit(execute_command_body(W, x, result))

WorkerDone == WorkerDoneIn(Results)
WorkerDoneOne == WorkerDoneIn(OneResult)
WorkerDoneFew == WorkerDoneIn(FewResults)

\* a cancelled worker resumes with CancelledError
WorkerCancelled ==
    \E x \in workers :
        /\ x.cancelled
        /\ Commit(execute_command_body(W, x, Raised("CancelledError")))

QuickOpen ==
    /\ MainIsTop
    /\ Len(stack) < MaxStack
    /\ Commit(action_quick_open(Begin(W)))

\* an option of the list is clicked
QuickOpenSelect ==
    /\ Top(W) = "quickopen"
    /\ \E i \in 1..Len(options), readable \in BOOLEAN :
           Commit(on_file_selected(Begin(W), i, readable))

\* what is typed in the picker's Input
Queries == {<<>>, <<"m">>, <<"P", "Y">>, <<"l", "i", "b">>, <<"u", "t", "i", "l">>,
            <<" ">>, <<"z">>}

SearchChanged ==
    /\ Top(W) = "quickopen"
    /\ \E value \in Queries \ {query} : Commit(on_search_changed(Begin(W), value))

CursorUp ==
    /\ Top(W) = "quickopen"
    /\ Commit(action_cursor_up(Begin(W)))

CursorDown ==
    /\ Top(W) = "quickopen"
    /\ Commit(action_cursor_down(Begin(W)))

\* enter in the picker
QuickOpenEnter ==
    /\ Top(W) = "quickopen"
    /\ \E readable \in BOOLEAN : Commit(action_select_file(Begin(W), readable))

QuickOpenClose ==
    /\ Top(W) = "quickopen"
    /\ Commit(action_close(Begin(W)))

OpenSettings ==
    /\ mounted
    /\ Top(W) \in {"main", "settings"}
    /\ Len(stack) < MaxStack
    /\ Commit(action_open_settings(Begin(W)))

StartEditing ==
    /\ Top(W) = "settings"
    /\ Commit(action_start_editing(Begin(W)))

GoBack ==
    /\ Top(W) = "settings"
    /\ Commit(action_go_back(Begin(W)))

AutoSaveChanged ==
    /\ Top(W) = "settings"
    /\ \E v \in BOOLEAN : Commit(on_auto_save_changed(Begin(W), v))

ClearTerminalChanged ==
    /\ Top(W) = "settings"
    /\ \E v \in BOOLEAN : Commit(on_clear_terminal_changed(Begin(W), v))

LineNumbersChanged ==
    /\ Top(W) = "settings"
    /\ \E v \in BOOLEAN : Commit(on_line_numbers_changed(Begin(W), v))

AlignPressed ==
    /\ Top(W) = "settings"
    /\ \E a \in Aligns : Commit(set_border_title_align(Begin(W), a))

SoftWrapChanged ==
    /\ Top(W) = "settings"
    /\ \E v \in BOOLEAN : Commit(on_soft_wrap_changed(Begin(W), v))

\* the selector offers the themes and the blank entry
Themes == {"monokai", "dracula"}
ThemeChanged ==
    /\ Top(W) = "settings"
    /\ \E v \in Themes \cup {Blank} : Commit(on_theme_changed(Begin(W), v))

\* an input holds the configured colour until the user types another text
TypedColors == {"", "#fff", "ffff", "#12345"}
ApplyColors ==
    /\ Top(W) = "settings"
    /\ \E bg \in TypedColors \cup {config.background_color},
          ta \in TypedColors \cup {config.textarea_bg_color},
          te \in TypedColors \cup {config.terminal_bg_color},
          ac \in TypedColors \cup {config.accent_color} :
            Commit(apply_colors(Begin(W), bg, ta, te, ac))

\* SettingsScreen.compose: each colour input starts with the configured colour
composed_inputs(cfg) ==
    [background |-> cfg.background_color, textarea |-> cfg.textarea_bg_color,
     terminal |-> cfg.terminal_bg_color, accent |-> cfg.accent_color]

\* the user replaces the text of one colour input
TypeColor ==
    /\ Top(W) = "settings"
    /\ \E id \in DOMAIN color_inputs, text \in TypedColors :
          Commit([Begin(W) EXCEPT !.color_inputs[id] = text])

\* the Apply Colors button, on the values the inputs hold
ApplyPressed ==
    /\ Top(W) = "settings"
    /\ Commit(apply_colors(Begin(W), color_inputs.background,
                           color_inputs.textarea, color_inputs.terminal,
                           color_inputs.accent))

\* the start of the program: the import of quickie.config
ConfigInit ==
    /\ stack = <<>>
    /\ events = <<>>
    /\ Commit(Config_init(Begin(W)))

\* the App starts when the imports have succeeded
AppMount ==
    /\ stack = <<>>
    /\ events = <<"load">>
    /\ Commit(app_on_mount(Begin(W)))

WelcomeIsTop == Top(W) = "welcome"

\* enter in the #project-input
ProjectInput ==
    /\ WelcomeIsTop
    /\ ~project_input_disabled
    /\ \E value \in ProjectInputs : Commit(handle_project_input(Begin(W), value))

SetupStart ==
    \E x \in setup_workers, outcome \in SetupOutcomes :
        /\ x.pc = "start"
        /\ ~x.cancelled
        /\ Commit(setup_project_start(Begin(W), x, outcome))

SetupResume ==
    \E x \in setup_workers, result \in InitializerResults :
        /\ x.pc = "wait"
        /\ ~x.cancelled
        /\ Commit(setup_project_resume(Begin(W), x, result))

SetupCancelled ==
    \E x \in setup_workers :
        /\ x.cancelled
        /\ Commit(setup_project_cancelled(Begin(W), x))

\* escape on the Main Screen
BackToSettings ==
    /\ MainIsTop
    /\ Commit(action_back_to_settings(Begin(W)))

----------------------------------------------------------------------------
(* Specifications *)

\* records a previous session's Config.save() left behind
SavedConfigs ==
    {save([Defaults EXCEPT !.auto_save_on_run = a, !.clear_terminal_on_run = c]) :
        a \in BOOLEAN, c \in BOOLEAN}

\* WelcomeScreen has pushed a freshly constructed MainScreen (__init__ has run)
InitMain ==
    /\ stack = <<"welcome", "main">>
    /\ mounted = FALSE
    /\ styles = None
    /\ open_files = EmptyMap
    /\ active_file = None
    /\ editor = ""
    /\ current_focus = "editor"
    /\ focused = "editor"
    /\ color_inputs = None
    /\ scrollback = <<>>
    /\ command_history = <<>>
    /\ workers = {}
    /\ all_files = <<>>
    /\ query = <<>>
    /\ options = <<>>
    /\ highlighted = Unhighlighted
    /\ project_input_disabled = TRUE
    /\ status_label = <<"Opening existing project...">>
    /\ setup_workers = {}
    /\ project_dirs = [n \in ProjectNames |->
                          IF n = <<"d">> THEN "initialized" ELSE "absent"]
    /\ events = <<>>
    /\ left = [p \in AllPaths |-> NoText]

\* Files: every state of the project directory, every edit, files changing
\* under the editor; the run settings are as loaded and are not changed
Init ==
    /\ InitMain
    /\ config_file \in {f \in SavedConfigs : ~f.data.clear_terminal_on_run}
    /\ config = load(config_file)
    /\ disk \in [Paths -> Texts \cup {NoFile}]

Next ==
    \/ MainMount
    \/ Edit
    \/ FsChange
    \/ SaveFile
    \/ RunCode
    \/ WorkerDoneOne
    \/ QuickOpen
    \/ QuickOpenSelect
    \/ QuickOpenClose

Spec == Init /\ [][Next]_vars

\* Main Screen: every handler of the Main Screen and of the Settings Screen
\* over it, in a project whose files only the editor writes
InitMainScreen ==
    /\ InitMain
    /\ config_file \in SavedConfigs
    /\ config = load(config_file)
    /\ disk \in {d \in [Paths -> Texts \cup {NoFile}] :
                    /\ d[MainPy] \in {NoFile, DefaultCode}
                    /\ d[OtherPy] \in {NoFile, "x = 1"}}

NextMainScreen ==
    \/ MainMount
    \/ EditOne
    \/ ToggleFocus
    \/ SaveFile
    \/ RunCode
    \/ WorkerDoneOne
    \/ QuickOpen
    \/ QuickOpenSelect
    \/ QuickOpenClose
    \/ OpenSettings
    \/ StartEditing
    \/ GoBack
    \/ AutoSaveChanged
    \/ ClearTerminalChanged

SpecMain == InitMainScreen /\ [][NextMainScreen]_vars

\* Focus: the focus is moved by ctrl+o and by clicks, on the Main Screen and
\* after returning to it from the picker and from Settings
NextFocus ==
    \/ MainMount
    \/ EditOne
    \/ ToggleFocus
    \/ ClickTerminal
    \/ ClickEditor
    \/ ClickTerminalInput
    \/ QuickOpen
    \/ QuickOpenClose
    \/ OpenSettings
    \/ StartEditing

SpecFocus == InitMainScreen /\ [][NextFocus]_vars

\* Run: run() again and again on one file, with Settings changing what it
\* reads in between
InitRun ==
    /\ InitMain
    /\ config_file \in SavedConfigs
    /\ config = load(config_file)
    /\ disk \in {d \in [Paths -> Texts \cup {NoFile}] :
                    d[MainPy] \in {NoFile, DefaultCode} /\ d[OtherPy] = NoFile}

NextRun ==
    \/ MainMount
    \/ EditOne
    \/ RunCodeAgain
    \/ WorkerDoneOne
    \/ WorkerCancelled
    \/ OpenSettings
    \/ StartEditing
    \/ GoBack
    \/ AutoSaveChanged
    \/ ClearTerminalChanged
    \/ LineNumbersChanged

SpecRun == InitRun /\ [][NextRun]_vars

\* Terminal Pane: commands typed and run one over the other; each ends with
\* output, with a failing exit status, with an error or cancelled
InitTerminal ==
    /\ InitMain
    /\ config_file \in SavedConfigs
    /\ config = load(config_file)
    /\ disk = [p \in Paths |-> IF p = MainPy THEN DefaultCode ELSE NoFile]

NextTerminal ==
    \/ MainMount
    \/ RunCodeAgain
    \/ TerminalCommand
    \/ WorkerDoneFew
    \/ WorkerCancelled

SpecTerm == InitTerminal /\ [][NextTerminal]_vars

\* Output: a command typed or run, and every merged output it can end with
NextOutput ==
    \/ MainMount
    \/ RunCode
    \/ TerminalCommandOne
    \/ WorkerDone

SpecOut == InitTerminal /\ [][NextOutput]_vars

\* Picker: Quick-Open over every set of project files, with queries, moves
\* of the highlight, enter, click and escape
InitPicker ==
    /\ InitMain
    /\ config_file = save(Defaults)
    /\ config = load(config_file)
    /\ disk \in [AllPaths -> {DefaultCode, NoFile}]

NextPicker ==
    \/ MainMount
    \/ QuickOpen
    \/ SearchChanged
    \/ CursorUp
    \/ CursorDown
    \/ QuickOpenEnter
    \/ QuickOpenSelect
    \/ QuickOpenClose

SpecPicker == InitPicker /\ [][NextPicker]_vars

\* values a record can hold for the ten keys, none of them the default
Recorded == [border_title_align |-> "left",
             background_color |-> "#fff",
             textarea_bg_color |-> "#fff",
             terminal_bg_color |-> "#fff",
             accent_color |-> "#fff",
             editor_theme |-> "dracula",
             show_line_numbers |-> FALSE,
             soft_wrap |-> TRUE,
             clear_terminal_on_run |-> TRUE,
             auto_save_on_run |-> FALSE]

\* every state of the persisted record
ConfigFiles ==
    {[kind |-> k, data |-> EmptyMap] : k \in FileKinds \ {"object"}} \cup
    {[kind |-> "object", data |-> [k \in S |-> Recorded[k]]] :
        S \in SUBSET ConfigKeys}

\* Start: the program is about to import quickie.config, whose __init__ has
\* assigned the defaults and calls load()
InitStart ==
    /\ stack = <<>>
    /\ mounted = FALSE
    /\ styles = None
    /\ open_files = EmptyMap
    /\ active_file = None
    /\ editor = ""
    /\ current_focus = "editor"
    /\ focused = "editor"
    /\ color_inputs = None
    /\ scrollback = <<>>
    /\ command_history = <<>>
    /\ workers = {}
    /\ all_files = <<>>
    /\ query = <<>>
    /\ options = <<>>
    /\ highlighted = Unhighlighted
    /\ project_input_disabled = FALSE
    /\ status_label = <<>>
    /\ setup_workers = {}
    /\ project_dirs = [n \in ProjectNames |-> "absent"]
    /\ events = <<>>
    /\ left = [p \in AllPaths |-> NoText]
    /\ config_file \in ConfigFiles
    /\ config = Defaults
    /\ disk = [p \in Paths |-> NoFile]

NextStart ==
    \/ ConfigInit
    \/ AppMount

SpecStart == InitStart /\ [][NextStart]_vars

\* Settings: the Settings Screen is open over the Welcome Screen, the Config
\* loaded from a record that is absent, not JSON, or an object of at most
\* one key
InitSettings ==
    /\ stack = <<"welcome", "settings">>
    /\ mounted = FALSE
    /\ styles = None
    /\ open_files = EmptyMap
    /\ active_file = None
    /\ editor = ""
    /\ current_focus = "editor"
    /\ focused = "editor"
    /\ color_inputs = None
    /\ scrollback = <<>>
    /\ command_history = <<>>
    /\ workers = {}
    /\ all_files = <<>>
    /\ query = <<>>
    /\ options = <<>>
    /\ highlighted = Unhighlighted
    /\ project_input_disabled = FALSE
    /\ status_label = <<>>
    /\ setup_workers = {}
    /\ project_dirs = [n \in ProjectNames |-> "absent"]
    /\ events = <<>>
    /\ left = [p \in AllPaths |-> NoText]
    /\ config_file \in {f \in ConfigFiles :
                            /\ load_raises(f) = None
                            /\ Cardinality(DOMAIN f.data) <= 1}
    /\ config = load(config_file)
    /\ disk = [p \in Paths |-> NoFile]

NextSettings ==
    \/ ThemeChanged
    \/ LineNumbersChanged
    \/ SoftWrapChanged
    \/ AutoSaveChanged
    \/ ClearTerminalChanged
    \/ AlignPressed
    \/ ApplyColors
    \/ GoBack

SpecSettings == InitSettings /\ [][NextSettings]_vars

\* Colours: the Settings Screen has been composed over the Welcome Screen
\* and its four colour inputs are filled in and applied
InitColors ==
    /\ stack = <<"welcome", "settings">>
    /\ mounted = FALSE
    /\ styles = None
    /\ open_files = EmptyMap
    /\ active_file = None
    /\ editor = ""
    /\ current_focus = "editor"
    /\ focused = "editor"
    /\ scrollback = <<>>
    /\ command_history = <<>>
    /\ workers = {}
    /\ all_files = <<>>
    /\ query = <<>>
    /\ options = <<>>
    /\ highlighted = Unhighlighted
    /\ project_input_disabled = FALSE
    /\ status_label = <<>>
    /\ setup_workers = {}
    /\ project_dirs = [n \in ProjectNames |-> "absent"]
    /\ events = <<>>
    /\ left = [p \in AllPaths |-> NoText]
    /\ config_file \in {f \in ConfigFiles :
                            /\ load_raises(f) = None
                            /\ DOMAIN f.data \in {{}, {"background_color"},
                                                   {"soft_wrap"}}}
    /\ config = load(config_file)
    /\ color_inputs = composed_inputs(config)
    /\ disk = [p \in Paths |-> NoFile]

NextColors ==
    \/ TypeColor
    \/ ApplyPressed
    \/ GoBack

SpecColors == InitColors /\ [][NextColors]_vars

\* Welcome: the App has pushed the Welcome Screen; project names are
\* submitted, projects are set up, the Main Screen is pushed and left
InitWelcome ==
    /\ stack = <<"welcome">>
    /\ mounted = FALSE
    /\ styles = None
    /\ open_files = EmptyMap
    /\ active_file = None
    /\ editor = ""
    /\ current_focus = "editor"
    /\ focused = "editor"
    /\ color_inputs = None
    /\ scrollback = <<>>
    /\ command_history = <<>>
    /\ workers = {}
    /\ all_files = <<>>
    /\ query = <<>>
    /\ options = <<>>
    /\ highlighted = Unhighlighted
    /\ project_input_disabled = FALSE
    /\ status_label = <<>>
    /\ setup_workers = {}
    /\ project_dirs \in [ProjectNames -> {"absent", "initialized"}]
    /\ events = <<>>
    /\ left = [p \in AllPaths |-> NoText]
    /\ config_file = save(Defaults)
    /\ config = load(config_file)
    /\ disk = [p \in Paths |-> NoFile]

NextWelcome ==
    \/ ProjectInput
    \/ SetupStart
    \/ SetupResume
    \/ SetupCancelled
    \/ MainMount
    \/ RunCode
    \/ BackToSettings

SpecWelcome == InitWelcome /\ [][NextWelcome]_vars

----------------------------------------------------------------------------
(* Properties of the open-file cache *)

Range(f) == {f[i] : i \in DOMAIN f}
Last(q) == q[Len(q)]

OpenMarks == {"cache_hit", "no_file", "read_file", "read_failed"}

\* the step is one whose handler ended in open_file(p)
Opened(p) ==
    /\ events' # <<>>
    /\ Last(events') \in OpenMarks
    /\ active_file' = p

\* C1: if the editor holds text T while A is the active file, then after
\* open(B) and open(A), with any edits to B in between, the editor and A's
\* cache entry hold T again, whatever A's content on disk is.  left[A] is the
\* text the editor held when A was switched away from.
C1_SwitchBackKeepsEdits ==
    [][\A p \in Paths :
          LET T == IF active_file = p THEN editor ELSE left[p]
          IN (Opened(p) /\ T # NoText)
                 => /\ editor' = T
                    /\ open_files'[p].content = T]_vars

\* A was edited, B was visited and edited, A is shown again with the edit that
\* the disk does not hold
C1_Witness ==
    /\ events = <<"flush", "cache_hit">>
    /\ active_file = MainPy
    /\ editor = "x = 1"
    /\ disk[MainPy] = DefaultCode
    /\ OtherPy \in DOMAIN open_files
    /\ left[OtherPy] = DefaultCode
    /\ disk[OtherPy] = NoFile

\* C2: open(path) of a path that has a cache entry does not read the disk:
\* the text shown is the cached text (the live text, for the active file)
\* whatever the disk holds, no file changes, and opening the path again
\* without an edit in between leaves the cache as it is.
C2_CachedOpenIgnoresDisk ==
    [][\A p \in Paths :
          (Opened(p) /\ p \in DOMAIN open_files)
              => LET cached == IF active_file = p THEN editor
                               ELSE open_files[p].content
                 IN /\ Last(events') = "cache_hit"
                    /\ editor' = cached
                    /\ open_files'[p].content = cached
                    /\ disk' = disk
                    /\ (active_file = p /\ editor = open_files[p].content)
                           => open_files' = open_files]_vars

\* a cached file is shown after it was removed from the disk
C2_Witness ==
    /\ events = <<"flush", "cache_hit">>
    /\ active_file = OtherPy
    /\ editor = "x = 1"
    /\ open_files[OtherPy].content = "x = 1"
    /\ disk[OtherPy] = NoFile
    /\ disk[MainPy] = ""

\* C3: the cache holds one entry per path, stored under its own path; the
\* active file, once set, is a key of the cache; no entry is ever removed.
C3_CacheShape ==
    /\ \A k \in DOMAIN open_files : open_files[k].path = k
    /\ Cardinality({open_files[k] : k \in DOMAIN open_files})
           = Cardinality(DOMAIN open_files)
    /\ DOMAIN open_files \subseteq Paths
    /\ active_file # None => active_file \in DOMAIN open_files

C3_CacheInvariant ==
    /\ []C3_CacheShape
    /\ [][DOMAIN open_files \subseteq DOMAIN open_files']_vars

\* two files are cached after a run, a switch of focus and a visit to Settings
C3_Witness ==
    /\ DOMAIN open_files = Paths
    /\ active_file = OtherPy
    /\ command_history # <<>>
    /\ current_focus = "terminal"
    /\ Top(W) = "settings"

\* the step is one whose handler wrote the active file to disk
Saved == "write_file" \in Range(events')
SaveFailed == "write_failed" \in Range(events')

\* C4: after a successful save the active file on disk, its cache entry and
\* the editor hold the same text and the entry is not marked modified; every
\* other file and every other cache entry is as before.
C4_SaveWritesBuffer ==
    [][Saved =>
          /\ active_file' = active_file
          /\ editor' = editor
          /\ disk'[active_file] = editor
          /\ open_files'[active_file].content = editor
          /\ ~open_files'[active_file].modified
          /\ DOMAIN open_files' = DOMAIN open_files
          /\ \A q \in Paths \ {active_file} :
                 /\ disk'[q] = disk[q]
                 /\ q \in DOMAIN open_files => open_files'[q] = open_files[q]]_vars

\* an edit of one file is saved while the other file has unsaved edits
C4_Witness ==
    /\ events = <<"write_file", "notify_information">>
    /\ active_file = OtherPy
    /\ editor = "x = 1"
    /\ disk[OtherPy] = "x = 1"
    /\ open_files[MainPy].content = ""
    /\ disk[MainPy] = DefaultCode

\* C5: a save whose write fails ends with an error notification; the cache,
\* the active file and the editor are as before the call, and the Main Screen
\* goes on accepting actions.
C5_Usable ==
    "write_failed" \in Range(events)
        => /\ MainIsTop
           /\ ENABLED SaveFile
           /\ ENABLED Edit
           /\ ENABLED QuickOpen

C5_FailedSaveKeepsCache ==
    /\ []C5_Usable
    /\ [][SaveFailed =>
          /\ Last(events') \in {"notify_error", "submit"}
          /\ \E i \in 1..(Len(events') - 1) :
                 events'[i] = "write_failed" /\ events'[i + 1] = "notify_error"
          /\ open_files' = open_files
          /\ active_file' = active_file
          /\ editor' = editor]_vars

\* a failed save leaves an unsaved edit in the editor and the old cache entry
C5_Witness ==
    /\ events = <<"write_failed", "notify_error">>
    /\ active_file = MainPy
    /\ editor = "x = 1"
    /\ open_files[MainPy].content = DefaultCode
    /\ disk[MainPy] = ""
    /\ ENABLED SaveFile

----------------------------------------------------------------------------
(* Properties of run() and of the settings it reads *)

\* the step is one whose handler submitted a command to the Terminal Pane
Submitted == Len(command_history') = Len(command_history) + 1

\* what save() leaves in `events`
SaveEvents == {<<"write_file", "notify_information">>,
               <<"write_failed", "notify_error">>}

\* run() on a Main Screen without an active file, computed in the current state
RunWithoutFile == action_run_code(Begin([W EXCEPT !.active_file = None]), "ok")

\* C6: run() with an active file saves first when auto-save-on-run is set,
\* then clears the scrollback when clear-terminal-on-run is set, then submits
\* one runner command for the active file, whose echo the clear never removes;
\* run() without an active file submits, saves and clears nothing.
C6_RunStepOrder ==
    Submitted =>
        LET cmd == <<"uv run ">> \o shlex_quote(active_file)
            saves == IF config.auto_save_on_run THEN SaveEvents ELSE {<<>>}
            clears == IF config.clear_terminal_on_run THEN <<"clear">> ELSE <<>>
        IN /\ \E sv \in saves : events' = sv \o clears \o <<"submit">>
           /\ command_history' = Append(command_history, cmd)
           /\ scrollback' = (IF config.clear_terminal_on_run THEN <<Prompt>>
                             ELSE scrollback) \o <<cmd>>
           /\ {x \in workers' : ~x.cancelled}
                  = {[id |-> Len(command_history'), cmd |-> cmd,
                      cancelled |-> FALSE]}
           /\ ~config.auto_save_on_run
                  => disk' = disk /\ open_files' = open_files
           /\ (config.auto_save_on_run /\ Saved) => disk'[active_file] = editor
           /\ active_file' = active_file

C6_RunOrder ==
    /\ [](/\ RunWithoutFile.command_history = command_history
          /\ RunWithoutFile.workers = workers
          /\ RunWithoutFile.scrollback = scrollback
          /\ RunWithoutFile.disk = disk
          /\ RunWithoutFile.open_files = open_files
          /\ RunWithoutFile.events = <<"notify_warning">>)
    /\ [][C6_RunStepOrder]_vars

\* a second run that saved an edit, cleared the output of the first run and
\* then echoed its command
C6_Witness ==
    /\ events = <<"write_file", "notify_information", "clear", "submit">>
    /\ Len(command_history) = 2
    /\ active_file = MainPy
    /\ editor = "x = 1"
    /\ disk[MainPy] = "x = 1"
    /\ scrollback = <<Prompt, <<"uv run ", MainPy>>>>
    /\ workers = {[id |-> 2, cmd |-> <<"uv run ", MainPy>>, cancelled |-> FALSE]}

\* two states of the Main Screen that differ at most in the Config Store
SameMainScreen(w1, w2) ==
    /\ w1.disk = w2.disk
    /\ w1.open_files = w2.open_files
    /\ w1.active_file = w2.active_file
    /\ w1.editor = w2.editor
    /\ w1.scrollback = w2.scrollback
    /\ w1.command_history = w2.command_history
    /\ w1.workers = w2.workers
    /\ w1.styles = w2.styles

\* run() now, and run() after a setting was changed to v in Settings
RunNow(outcome) == action_run_code(Begin(W), outcome)
RunAfter(changed, outcome) == action_run_code(Begin(changed), outcome)

\* C7 as stated: no setting changed in Settings while the Main Screen is open
\* changes what run() does on that Main Screen.
C7_RunIgnoresSettings ==
    MainIsTop =>
        \A v \in BOOLEAN, outcome \in WriteOutcomes :
            /\ SameMainScreen(RunNow(outcome),
                              RunAfter(on_auto_save_changed(W, v), outcome))
            /\ SameMainScreen(RunNow(outcome),
                              RunAfter(on_clear_terminal_changed(W, v), outcome))

\* C7 as amended: what the Main Screen applied to its widgets when it was
\* mounted stays as applied whatever Settings changes later, and a change of
\* an appearance setting changes nothing run() does; run() reads auto-save-
\* on-run and clear-terminal-on-run from the Config Store when it is called.
C7_AppearanceIgnored ==
    MainIsTop =>
        \A v \in BOOLEAN, outcome \in WriteOutcomes :
            SameMainScreen(RunNow(outcome),
                           RunAfter(on_line_numbers_changed(W, v), outcome))

C7_ConfigReadAtMountAndRun ==
    /\ []C7_AppearanceIgnored
    /\ [][mounted => styles' = styles]_vars
    /\ [][Submitted =>
             /\ Saved \/ SaveFailed <=> config.auto_save_on_run
             /\ "clear" \in Range(events') <=> config.clear_terminal_on_run]_vars

\* the same Main Screen runs after Settings changed a setting it had applied
\* and the two settings run() reads
C7_Witness ==
    /\ MainIsTop
    /\ styles.show_line_numbers # config.show_line_numbers
    /\ ~config.auto_save_on_run
    /\ config.clear_terminal_on_run
    /\ events = <<"clear", "submit">>
    /\ editor # disk[active_file]

----------------------------------------------------------------------------
(* Properties of the Terminal Pane *)

RECURSIVE Join(_)
Join(lines) ==
    IF lines = <<>> THEN <<>>
    ELSE IF Len(lines) = 1 THEN lines[1]
    ELSE lines[1] \o <<"\n">> \o Join(Tail(lines))

\* `lines` are the lines of `text`: none for the empty text, else the pieces
\* between its newlines
IsLinesOf(lines, text) ==
    IF text = <<>> THEN lines = <<>>
    ELSE /\ lines # <<>>
         /\ \A i \in 1..Len(lines) : "\n" \notin Range(lines[i])
         /\ Join(lines) = text

\* the text without the newline that ends its last line
Chomp(text) ==
    IF text # <<>> /\ Last(text) = "\n" THEN SubSeq(text, 1, Len(text) - 1)
    ELSE text

InFlight(ws) == {x \in ws : ~x.cancelled}

\* the step is the end of a worker whose process exited
Exit == events' # <<>> /\ Head(events') \in {"exit0", "exit1"}

\* the step is the end of a worker in one of the ways execute_command handles
Completed == events' # <<>> /\ Head(events') \in {"exit0", "exit1", "OSError"}

\* the lines a step appended before the last one
AppendedBody == SubSeq(scrollback', Len(scrollback) + 1, Len(scrollback') - 1)

Appends ==
    /\ Len(scrollback') > Len(scrollback)
    /\ SubSeq(scrollback', 1, Len(scrollback)) = scrollback

\* a submission appends the command to the history and echoes it, after the
\* prompt of a scrollback that run() cleared or else after what was there
SubmissionEchoes ==
    Submitted => /\ command_history'
                      = Append(command_history, Last(command_history'))
                 /\ scrollback'
                      = (IF "clear" \in Range(events') THEN <<Prompt>>
                         ELSE scrollback) \o <<Last(command_history')>>

\* the worker that ends in the step found its echo as the last line, is the
\* last command of the history, and appended `lines` of its output and a prompt
CompletionAppends(text(_)) ==
    Exit => LET x == CHOOSE x \in workers : x \notin workers'
            IN /\ ~x.cancelled
               /\ Last(scrollback) = x.cmd
               /\ x.id = Len(command_history)
               /\ command_history[x.id] = x.cmd
               /\ command_history' = command_history
               /\ Appends
               /\ Last(scrollback') = Prompt
               /\ IsLinesOf(AppendedBody, text(Tail(events')))

\* C8 as stated: a command that is not preempted appends its text, then the
\* lines of its merged output in order, then one prompt, and is added once to
\* the history.
C8_OutputLinesAppended ==
    /\ [][SubmissionEchoes]_vars
    /\ [][CompletionAppends(Chomp)]_vars

\* C8 as amended: the lines are those of the merged output with the
\* whitespace at its two ends stripped.
C8_StrippedOutputLinesAppended ==
    /\ [][SubmissionEchoes]_vars
    /\ [][CompletionAppends(strip)]_vars

\* `echo`, two lines of output and the prompt
C8_Witness ==
    /\ events = <<"exit0", "a", "\n", "a">>
    /\ scrollback = <<Prompt, <<"ls">>, <<"a">>, <<"a">>, Prompt>>
    /\ command_history = <<<<"ls">>>>
    /\ workers = {}

\* C9: at most one execution is in flight; a submission cancels the one in
\* flight and starts the new one at once; a cancelled execution appends
\* nothing to the scrollback.
C9_Exclusive ==
    /\ [](Cardinality(InFlight(workers)) <= 1)
    /\ [][Submitted =>
             /\ InFlight(workers')
                    = {[id |-> Len(command_history'),
                        cmd |-> Last(command_history'), cancelled |-> FALSE]}
             /\ \A x \in workers : [x EXCEPT !.cancelled = TRUE] \in workers']_vars
    /\ [][events' = <<"CancelledError">>
             => scrollback' = scrollback /\ workers' # workers]_vars
    /\ [][(mounted /\ ~Submitted /\ scrollback' # scrollback)
             => \E x \in InFlight(workers) : workers' = workers \ {x}]_vars

\* the second command runs after the cancelled first one ended without output
C9_Witness ==
    /\ events = <<"CancelledError">>
    /\ command_history = <<<<"ls">>, <<"pwd">>>>
    /\ scrollback = <<Prompt, <<"ls">>, <<"pwd">>>>
    /\ workers = {[id |-> 2, cmd |-> <<"pwd">>, cancelled |-> FALSE]}

\* the step is the end of a worker in any way, preemption among them
AnyEnd == events' # <<>> /\ Head(events') \in {"exit0", "exit1", "OSError",
                                                "CancelledError"}

\* what C10 says of the end of an execution
PromptLast ==
    /\ Appends
    /\ Last(scrollback') = Prompt
    /\ Prompt \notin Range(AppendedBody)
    /\ Head(events') = "OSError" => AppendedBody = <<<<"Error: ", "OSError">>>>

----------------------------------------------------------------------------
(* Properties of the screens over the Main Screen *)

\* C11: pushing Settings or Quick-Open over the Main Screen, or dismissing
\* either, cancels no command in flight; a command that completes while the
\* Main Screen is not on top appends its output lines and the prompt.
C11_ScreensKeepCommandRunning ==
    /\ [][stack' # stack => workers' = workers]_vars
    /\ [][(Exit /\ Top(W) # "main")
             => /\ \E x \in InFlight(workers) : workers' = workers \ {x}
                /\ Appends
                /\ Last(scrollback') = Prompt
                /\ IsLinesOf(AppendedBody, strip(Tail(events')))]_vars

\* the run has completed under the Settings Screen
C11_Witness ==
    /\ Top(W) = "settings"
    /\ events = <<"exit0", "a", "\n">>
    /\ scrollback = <<Prompt, <<"uv run ", MainPy>>, <<"a">>, Prompt>>
    /\ workers = {}

----------------------------------------------------------------------------
(* Properties of the Quick-Open picker *)

PickerIsTop == Top(W) = "quickopen"

\* the file's name or its path relative to the project contains the query,
\* letter case apart
Wanted(q, p) ==
    \E text \in {name(rel_path(p)), rel_path(p)} :
        \E i \in 1..(Len(text) - Len(q) + 1) :
            \A k \in 1..Len(q) : lower_char(text[i + k - 1]) = lower_char(q[k])

\* C12: the visible list is the enumerated files that contain the query in
\* their name or relative path, letter case apart, in the order of the
\* enumeration: none missing, none more; all of them for the empty query.
C12_VisibleListIsFilter ==
    PickerIsTop =>
        /\ options = SelectSeq(all_files, LAMBDA p : Wanted(query, p))
        /\ query = <<>> => options = all_files

\* a query found in the directory of one file only, not in any name
C12_Witness ==
    /\ PickerIsTop
    /\ query = <<"l", "i", "b">>
    /\ all_files = <<SubPy, MainPy, OtherPy>>
    /\ options = <<SubPy>>

\* the step rebuilt the list: the picker was mounted or its query changed
Rebuilt == Top(W') = "quickopen" /\ (~PickerIsTop \/ query' # query)

\* C13: move-up from 0 goes to n-1 and else one up; move-down from n-1 goes
\* to 0 and else one down; with no item both leave the highlight unset; the
\* highlight is unset exactly when the list is empty, else an index in
\* 0..n-1, and 0 right after every rebuild.
C13_HighlightInList ==
    PickerIsTop =>
        IF options = <<>> THEN highlighted = Unhighlighted
        ELSE highlighted \in 0..(Len(options) - 1)

C13_HighlightMoves ==
    /\ []C13_HighlightInList
    /\ [][events' = <<"cursor_up">> =>
             /\ options' = options
             /\ highlighted' = IF Len(options) = 0 THEN Unhighlighted
                                ELSE IF highlighted = 0 THEN Len(options) - 1
                                ELSE highlighted - 1]_vars
    /\ [][events' = <<"cursor_down">> =>
             /\ options' = options
             /\ highlighted' = IF Len(options) = 0 THEN Unhighlighted
                                ELSE IF highlighted = Len(options) - 1 THEN 0
                                ELSE highlighted + 1]_vars
    /\ [][(Rebuilt /\ options' # <<>>) => highlighted' = 0]_vars

\* move-up from the first of three items has wrapped to the last
C13_Witness ==
    /\ PickerIsTop
    /\ events = <<"cursor_up">>
    /\ Len(options) = 3
    /\ highlighted = 2

\* the step is enter in the picker
Entered == events' # <<>> /\ Head(events') = "select_file"

\* C14: enter dismisses the picker with the path at the highlight of the
\* visible list, a path of the list for the current query, and the Main
\* Screen makes it its active file; enter on an empty list yields no path
\* and changes nothing in the Main Screen.
C14_EnterOpensHighlighted ==
    [][Entered =>
          IF options = <<>>
          THEN UNCHANGED <<stack, active_file, open_files, editor, disk,
                           scrollback, command_history, workers, current_focus>>
          ELSE LET picked == options[highlighted + 1]
               IN /\ Wanted(query, picked)
                  /\ \E i \in 1..Len(all_files) : all_files[i] = picked
                  /\ stack' = SubSeq(stack, 1, Len(stack) - 1)
                  /\ Opened(picked)
                  /\ picked \in DOMAIN open_files']_vars

\* enter on the second item of a filtered list made that file the active one
C14_Witness ==
    /\ MainIsTop
    /\ events = <<"select_file", "flush", "read_file">>
    /\ active_file = OtherPy
    /\ disk[SubPy] # NoFile
    /\ left[MainPy] = DefaultCode

----------------------------------------------------------------------------
(* Properties of suspending and resuming the Main Screen *)

\* the step is a selection in the picker, which opens a file
Selected == PickerIsTop /\ events' # <<>> /\ Last(events') \in OpenMarks

----------------------------------------------------------------------------
(* Properties of the Welcome Screen *)

\* C16: after a successful bootstrap the Welcome Screen is no longer on the
\* screen stack, the Main Screen has taken its position, and the back action
\* of the Main Screen never makes the Welcome Screen the visible screen.
C16_WelcomeReplaced ==
    /\ []("main" \in Range(stack) => "welcome" \notin Range(stack))
    /\ [][("push_screen" \in Range(events')) =>
              /\ Len(stack') = Len(stack)
              /\ Top(W') = "main"]_vars
    /\ [][("back_to_settings" \in Range(events')) => Top(W') # "welcome"]_vars

\* the submissions the rejection is stated for: empty after trimming, or
\* with a character outside A-Z, a-z, 0-9, underscore and hyphen
AsciiNameChars == {"d", "1", "_", "-"}
OutsideAscii(value) ==
    \/ strip(value) = <<>>
    \/ \E i \in 1..Len(strip(value)) : strip(value)[i] \notin AsciiNameChars

\* the same with the word characters of every script allowed
OutsideWord(value) ==
    \/ strip(value) = <<>>
    \/ \E i \in 1..Len(strip(value)) :
           strip(value)[i] \notin WordChars \cup {"-"}

\* the step is the submission of value
Submits(value) ==
    /\ WelcomeIsTop
    /\ ~project_input_disabled
    /\ Commit(handle_project_input(Begin(W), value))

RejectionMessages ==
    {<<"Please enter a project name">>,
     <<"Name can only contain letters, numbers, hyphens, underscores">>}

\* a status message and nothing else
RejectedUnchanged ==
    /\ status_label' \in RejectionMessages
    /\ setup_workers' = setup_workers
    /\ project_dirs' = project_dirs
    /\ "setup_project" \notin Range(events')
    /\ "create_subprocess_exec" \notin Range(events')
    /\ project_input_disabled' = FALSE
    /\ stack' = stack
    /\ UNCHANGED <<config, config_file, disk, mounted, open_files, active_file,
                   editor, scrollback, command_history, workers>>

\* C17 as stated: a submission that is empty after trimming or has a
\* character outside A-Z, a-z, 0-9, underscore and hyphen is rejected with a
\* status message and no state change.
C17_OutsideAsciiRejected ==
    [][\A value \in ProjectInputs :
          (OutsideAscii(value) /\ Submits(value)) => RejectedUnchanged]_vars

\* C17 amended: a submission that is empty after trimming or has a character
\* that is neither a word character of some script nor a hyphen is rejected
\* with a status message and no state change: no bootstrap task, no
\* directory, no initializer, the input enabled, the stack unchanged.
C17_OutsideWordRejected ==
    [][\A value \in ProjectInputs :
          (OutsideWord(value) /\ Submits(value)) => RejectedUnchanged]_vars

\* a name with a slash has just been rejected on the Welcome Screen
C17_Witness ==
    /\ Range(events) = {"rejected"}
    /\ status_label =
          <<"Name can only contain letters, numbers, hyphens, underscores">>
    /\ stack = <<"welcome">>
    /\ setup_workers = {}
    /\ ~project_input_disabled

\* the step is the end of the initializer of worker x with this result
Resumes(x, result) ==
    /\ x.pc = "wait"
    /\ ~x.cancelled
    /\ Commit(setup_project_resume(Begin(W), x, result))

\* C18: when the initializer exits with a non-zero status the Main Screen is
\* not pushed and the stack is unchanged, the status label shows the captured
\* error text, and the input is enabled again on the visible Welcome Screen.
C18_InitializerFailureStays ==
    [][\A x \in setup_workers, result \in InitializerResults :
          (result.rc # 0 /\ Resumes(x, result)) =>
              /\ stack' = stack
              /\ "push_screen" \notin Range(events')
              /\ status_label' = <<"Error: ", result.stderr>>
              /\ project_input_disabled' = FALSE
              /\ Top(W') = "welcome"
              /\ x \notin setup_workers']_vars

\* the initializer of a new project has just failed
C18_Witness ==
    /\ "initializer_failed" \in Range(events)
    /\ status_label = <<"Error: ", "uv: failed">>
    /\ stack = <<"welcome">>
    /\ ~project_input_disabled
    /\ \E n \in ProjectNames : project_dirs[n] = "bare"

----------------------------------------------------------------------------
(* Properties of the Config Store *)

\* the fields the record stands for: its own value for a key it has, the
\* built-in default for every other key and for every record but an object
Expected(file) ==
    [k \in ConfigKeys |->
        IF file.kind = "object" /\ k \in DOMAIN file.data
        THEN file.data[k]
        ELSE Defaults[k]]

\* C19: Config.load() never raises, whatever the persisted record is; for an
\* object every present key takes the recorded value and every missing key
\* its default, and for every other record all ten fields keep the defaults.
C19_LoadNeverRaises ==
    [][("load" \in Range(events')) =>
          /\ events' = <<"load">>
          /\ config' = Expected(config_file)]_vars

\* C20: after a Settings action that changed a Config field, the persisted
\* record is the in-memory Config in all ten fields, and loading it again
\* reproduces every field.
C20_WriteThrough ==
    [][(Top(W) = "settings" /\ config' # config) =>
          /\ config_file'.kind = "object"
          /\ DOMAIN config_file'.data = ConfigKeys
          /\ \A k \in ConfigKeys : config_file'.data[k] = config'[k]
          /\ load(save(config')) = config'
          /\ load(config_file') = config']_vars

\* every field differs from its default after Settings actions, and the
\* record holds all ten
C20_Witness ==
    /\ Top(W) = "settings"
    /\ \A k \in ConfigKeys : config[k] # Defaults[k]
    /\ config_file = save(config)
    /\ config.border_title_align = "center"

\* a value that starts with '#' and has total length 4 or 7
ValidHex(value) ==
    /\ Len(chars(value)) \in {4, 7}
    /\ chars(value)[1] = "#"

ColourKeys == {"background_color", "textarea_bg_color", "terminal_bg_color",
               "accent_color"}

\* the field is set to a valid value, and keeps its value in memory and in
\* the record when the value is invalid
FieldApplied(key, value) ==
    IF ValidHex(value)
    THEN /\ config'[key] = value
         /\ load(config_file')[key] = value
    ELSE /\ config'[key] = config[key]
         /\ load(config_file')[key] = load(config_file)[key]

\* C21: Apply Colors sets each of the four colour fields to its submitted
\* value if and only if the value starts with '#' and has length 4 or 7; an
\* invalid value leaves its field as it was in memory and in the record,
\* the valid values of the batch are still applied, and no other field
\* changes.
C21_ValidColoursApplied ==
    [][ApplyPressed =>
          /\ FieldApplied("background_color", color_inputs.background)
          /\ FieldApplied("textarea_bg_color", color_inputs.textarea)
          /\ FieldApplied("terminal_bg_color", color_inputs.terminal)
          /\ FieldApplied("accent_color", color_inputs.accent)
          /\ \A k \in ConfigKeys \ ColourKeys : config'[k] = config[k]]_vars

\* a batch with an invalid background, an invalid editor background and a
\* valid accent has been applied: the accent is set, the background keeps the
\* value an earlier batch gave it, the editor background its default
C21_Witness ==
    /\ Top(W) = "settings"
    /\ color_inputs = [background |-> "#12345", textarea |-> "ffff",
                       terminal |-> "", accent |-> "#fff"]
    /\ config.background_color = "#fff"
    /\ config.textarea_bg_color = Defaults.textarea_bg_color
    /\ config.accent_color = "#fff"
    /\ config_file = save(config)

\* the fields a step changes
Changed == {k \in ConfigKeys : config'[k] # config[k]}

\* the step is an action on a control of the Settings Screen
OnControl == Top(W) = "settings" /\ Top(W') = "settings"

ThemeSelected(v) == Top(W) = "settings" /\ Commit(on_theme_changed(Begin(W), v))
LineNumbersToggled(v) ==
    Top(W) = "settings" /\ Commit(on_line_numbers_changed(Begin(W), v))
SoftWrapToggled(v) ==
    Top(W) = "settings" /\ Commit(on_soft_wrap_changed(Begin(W), v))
AutoSaveToggled(v) ==
    Top(W) = "settings" /\ Commit(on_auto_save_changed(Begin(W), v))
ClearTerminalToggled(v) ==
    Top(W) = "settings" /\ Commit(on_clear_terminal_changed(Begin(W), v))
AlignSet(a) == Top(W) = "settings" /\ Commit(set_border_title_align(Begin(W), a))

\* only this field can differ after the step, and it holds the value
Only(key, value) == Changed \subseteq {key} /\ config'[key] = value

----------------------------------------------------------------------------
(* Properties of the focus *)

\* C23: each toggle_focus() moves the focus to whichever of the editor and
\* the terminal input did not hold it before the call, in every reachable
\* state, and changes nothing else: active file, open-file cache,
\* scrollback, command history and Config are unchanged.
C23_ToggleMovesFocus ==
    [][ToggleFocus =>
          /\ focused' \in {"editor", "terminal-input"} \ {focused}
          /\ UNCHANGED <<active_file, open_files, editor, scrollback,
                         command_history, config, config_file, disk>>]_vars

----------------------------------------------------------------------------
(* More properties of the open-file cache *)

\* C24: open(path) of a path without a cache entry whose file is missing or
\* cannot be read does not fail: the path gets a cache entry with empty
\* content, becomes the active file and is shown as an empty buffer, and no
\* file on disk is created or changed by it.
C24_OpenOfMissingFile ==
    [][\A p \in Paths :
          (/\ mounted
           /\ Opened(p)
           /\ p \notin DOMAIN open_files
           /\ (disk[p] = NoFile \/ Last(events') = "read_failed"))
              => /\ p \in DOMAIN open_files'
                 /\ open_files'[p] = OpenFile(p, "")
                 /\ active_file' = p
                 /\ editor' = ""
                 /\ disk' = disk]_vars

\* a file that was removed after the picker listed it has been chosen there
C24_Witness ==
    /\ mounted
    /\ Last(<<"none">> \o events) = "no_file"
    /\ active_file = OtherPy
    /\ editor = ""
    /\ open_files[OtherPy] = OpenFile(OtherPy, "")
    /\ disk[OtherPy] = NoFile
    /\ MainPy \in DOMAIN open_files

----------------------------------------------------------------------------
(* More properties of the Welcome Screen *)

\* the step is the first part of the setup_project worker x
Starts(x, outcome) ==
    /\ x.pc = "start"
    /\ ~x.cancelled
    /\ Commit(setup_project_start(Begin(W), x, outcome))

\* C25: across any sequence of submissions in one session, the Main Screen
\* is opened for a project whose directory did not exist before the session
\* only after the initializer has ended with exit status 0 in that
\* directory.  A directory is "bare" when the session created it and no
\* initializer has succeeded in it.
C25_OpenedOnlyInitialized ==
    [][\A x \in setup_workers :
          /\ \A outcome \in SetupOutcomes :
                (Starts(x, outcome) /\ "push_screen" \in Range(events'))
                    => project_dirs'[x.name] = "initialized"
          /\ \A result \in InitializerResults :
                (Resumes(x, result) /\ "push_screen" \in Range(events'))
                    => result.rc = 0 /\ project_dirs'[x.name] = "initialized"]_vars

\* C27: whenever the Welcome Screen is the top screen and no bootstrap task
\* is in flight, its project-name input is enabled.
C27_WelcomeInputEnabled ==
    (Top(W) = "welcome" /\ setup_workers = {}) => ~project_input_disabled

----------------------------------------------------------------------------
(* More properties of run() and of the cache *)

\* C26: with auto-save-on-run enabled, whenever run() submits the runner
\* command the active file on disk holds the text of the editor.
C26_RunnerSeesBuffer ==
    [][(Submitted /\ config.auto_save_on_run)
          => disk'[active_file'] = editor']_vars

\* C28: the modified flag of every cache entry is false in every reachable
\* state, also when the entry's content differs from the file on disk.
C28_NeverModified ==
    \A k \in DOMAIN open_files : open_files[k].modified = FALSE

\* after edits, a switch and a save: one entry holds an edit the disk does not
\* have, the other was saved, and neither is marked
C28_Witness ==
    /\ DOMAIN open_files = Paths
    /\ active_file = OtherPy
    /\ open_files[MainPy].content = "x = 1"
    /\ disk[MainPy] = DefaultCode
    /\ events = <<"write_file", "notify_information">>
    /\ disk[OtherPy] = editor
    /\ \A k \in DOMAIN open_files : ~open_files[k].modified

====
